---- MODULE Spec2Model ----
(***************************************************************************)
(* A model of mapa-ci-ufpb: the bounding-box extractor parse_svg_path (in  *)
(* its two versions, src/svg/mapa.py and gerar_svg.py), the room layout    *)
(* built on it, the schedule-code decoder desestruturar_horario, the        *)
(* ordered tree of exibir_hierarquia, the font size and icon placement of  *)
(* the layout, load_map, the schedule feed (baixar_json and               *)
(* descarregar_conteudo), build_svg_map with the batch of __main__, and    *)
(* the view "Por dia" of visualizar_disciplina.                            *)
(* Each part has its own specification over the shared variables.          *)
(*                                                                         *)
(* Strings are sequences of one-character strings.  Numbers read from a    *)
(* path are exact decimals, held as integers in units of 1/Unit; floating  *)
(* point rounding and overflow are not modelled.  The float values +inf,   *)
(* -inf and nan are modelled, with Python's arithmetic on them.            *)
(***************************************************************************)
EXTENDS Integers, Sequences, FiniteSets, TLC

(***************************************************************************)
(* Bounds of the model.                                                    *)
(***************************************************************************)
\* A path string is the concatenation of at most MaxSegs segments of Segs.
MaxSegs == 3
\* The same, for the path of a room handed to the layout.
MaxSegsLayout == 2
\* Decimal digits kept after the point: Unit = 10^UnitDigits.
UnitDigits == 1
\* Longest enumerated schedule code.
MaxCodeLen == 4
\* Most disciplines of one room in exibir_hierarquia.
MaxDisc == 3

VARIABLES
    impl,         \* which parse_svg_path runs: "mapa" or "gerar"
    d,            \* the path string
    pcP,          \* parse_svg_path: "idle", "start", "walk", "done", "raised"
    coords,       \* the decoded numbers, in units of 1/Unit
    i,            \* loop index of the pair walk (Python, 0-based)
    cur,          \* [x, y]: current_x, current_y
    box,          \* [min_x, max_x, min_y, max_y], extended numbers
    err,          \* the exception that left parse_svg_path, "" if none
    room,         \* the room definition handed to the layout
    sala,         \* gerar_svg.py: the Sala built by criar_sala
    out,          \* what the layout emitted for the room
    pcL,          \* layout: "idle", "start", "sala", "done", "raised"
    elemento,     \* desestruturar_horario: its argument
    pos,          \* characters of elemento already scanned
    hr,           \* [dias, turno, horarios] accumulated so far
    pcH,          \* desestruturar_horario: "idle", "scan", "done"
    disciplinas,  \* exibir_hierarquia: the schedule codes of one room
    dia,          \* the day the outer loop is at
    tree,         \* the leaves added to the room's branch, in order
    pcO,          \* exibir_hierarquia: "idle", "loop", "done"
    call,         \* calculate_font_size, calculate_transform: the arguments
    ret,          \* their return value
    pcC,          \* "idle", "font", "transform", "done"
    level,        \* load_map: the floor asked for
    loaded,       \* load_map: the string returned
    erroM,        \* load_map: the exception that left it, "" if none
    pcM,          \* load_map: "idle", "start", "done", "raised"
    resposta,     \* the reply of the schedule feed to the GET
    dados_json,   \* what baixar_json returned
    alocacoes,    \* what descarregar_conteudo returned
    erroF,        \* the exception that left the fetch, "" if none
    cursor,       \* [s, c]: the room and the entry the loops stand at
    pcF,          \* fetch: "idle", "get", "centro", "loop", "done", "raised"
    defs,         \* the floor definition files, by floor name
    files,        \* the files of assets/processado, by floor name
    fila,         \* the batch: place in _andares of the floor being built,
                  \* 0 when build_svg_map is called outside the batch
    map_name,     \* build: the floor being built
    write,        \* build: the argument write
    comp,         \* build: place of the loop in map_data (from 1)
    elements,     \* build: the list elements
    styles,       \* build: the list styles
    svg,          \* build: the document of the floor built last
    svg_prev,     \* the document of an earlier build of the same floor
    files_before, \* the files as they were when the current build began
    erroB,        \* build: the exception that left it, "" if none
    pcB,          \* build: "idle", "load", "elements", "styles", "write",
                  \* "returned", "raised"
    alocacoes_sala, \* web.py: the schedule codes of the allocations of the room
    dia_numero,   \* web.py: the day the loop of "Por dia" stands at
    linhas,       \* web.py: the list linhas
    markdown,     \* web.py: the headings and tables shown, in order
    pcV           \* the view: "idle", "dias", "done"

varsP == <<impl, d, pcP, coords, i, cur, box, err>>
varsL == <<room, sala, out, pcL>>
varsH == <<elemento, pos, hr, pcH>>
varsO == <<disciplinas, dia, tree, pcO>>
varsC == <<call, ret, pcC>>
varsM == <<level, loaded, erroM, pcM>>
varsF == <<resposta, dados_json, alocacoes, cursor, erroF, pcF>>
varsB == <<defs, files, fila, map_name, write, comp, elements, styles, svg,
           svg_prev, files_before, erroB, pcB>>
varsV == <<alocacoes_sala, dia_numero, linhas, markdown, pcV>>
varsN == <<varsC, varsM, varsF, varsB, varsV>>
vars == <<impl, d, pcP, coords, i, cur, box, err, room, sala, out, pcL,
          elemento, pos, hr, pcH, disciplinas, dia, tree, pcO,
          call, ret, pcC, level, loaded, erroM, pcM,
          resposta, dados_json, alocacoes, cursor, erroF, pcF,
          defs, files, fila, map_name, write, comp, elements, styles, svg,
          svg_prev, files_before, erroB, pcB,
          alocacoes_sala, dia_numero, linhas, markdown, pcV>>

(***************************************************************************)
(* Characters.                                                             *)
(***************************************************************************)
Digits == {"0", "1", "2", "3", "4", "5", "6", "7", "8", "9"}

Letters ==
    {"a", "b", "c", "d", "e", "f", "g", "h", "i", "j", "k", "l", "m",
     "n", "o", "p", "q", "r", "s", "t", "u", "v", "w", "x", "y", "z",
     "A", "B", "C", "D", "E", "F", "G", "H", "I", "J", "K", "L", "M",
     "N", "O", "P", "Q", "R", "S", "T", "U", "V", "W", "X", "Y", "Z"}

\* str.isdigit, on the ASCII characters.
IsDigit(c) == c \in Digits

\* str.isalpha and the class [a-zA-Z], on the ASCII characters.
IsAlpha(c) == c \in Letters

\* int(c) of a digit character.
DigitVal(c) ==
    CASE c = "0" -> 0 [] c = "1" -> 1 [] c = "2" -> 2 [] c = "3" -> 3
      [] c = "4" -> 4 [] c = "5" -> 5 [] c = "6" -> 6 [] c = "7" -> 7
      [] c = "8" -> 8 [] c = "9" -> 9

RECURSIVE Pow10(_)
Pow10(n) == IF n = 0 THEN 1 ELSE 10 * Pow10(n - 1)

Unit == Pow10(UnitDigits)

(***************************************************************************)
(* Extended numbers: Python floats with inf, -inf and nan.                 *)
(***************************************************************************)
Fin(n) == [k |-> "fin", v |-> n]
PInf == [k |-> "pinf", v |-> 0]
NInf == [k |-> "ninf", v |-> 0]
NaN == [k |-> "nan", v |-> 0]

IsFinite(a) == a.k = "fin"

\* a < b on floats (false whenever a nan is compared).
ExtLT(a, b) ==
    CASE a.k = "nan" \/ b.k = "nan" -> FALSE
      [] a.k = "ninf" -> b.k # "ninf"
      [] a.k = "pinf" -> FALSE
      [] OTHER -> \/ b.k = "pinf"
                  \/ b.k = "fin" /\ a.v < b.v

ExtLE(a, b) ==
    /\ a.k # "nan"
    /\ b.k # "nan"
    /\ ~ExtLT(b, a)

\* Python's min(a, b): b when b < a, else a.
ExtMin(a, b) == IF ExtLT(b, a) THEN b ELSE a

\* Python's max(a, b): b when b > a, else a.
ExtMax(a, b) == IF ExtLT(a, b) THEN b ELSE a

ExtNeg(a) ==
    CASE a.k = "fin" -> Fin(-a.v)
      [] a.k = "pinf" -> NInf
      [] a.k = "ninf" -> PInf
      [] OTHER -> NaN

ExtAdd(a, b) ==
    CASE a.k = "nan" \/ b.k = "nan" -> NaN
      [] a.k = "fin" /\ b.k = "fin" -> Fin(a.v + b.v)
      [] a.k = "fin" -> b
      [] b.k = "fin" -> a
      [] a.k = b.k -> a
      [] OTHER -> NaN

ExtSub(a, b) == ExtAdd(a, ExtNeg(b))

\* a * n for an integer n > 0.
ExtTimes(a, n) == IF a.k = "fin" THEN Fin(a.v * n) ELSE a

(***************************************************************************)
(* Tokens of a path string.                                                *)
(***************************************************************************)
\* src/svg/mapa.py: every character that is no digit, "." or "-" becomes " ".
BlankMapa(s) ==
    [k \in 1..Len(s) |->
        IF IsDigit(s[k]) \/ s[k] = "." \/ s[k] = "-" THEN s[k] ELSE " "]

\* gerar_svg.py: re.sub(r"[a-zA-Z]", " ", d).
BlankGerar(s) == [k \in 1..Len(s) |-> IF IsAlpha(s[k]) THEN " " ELSE s[k]]

\* str.split(): the maximal runs of characters other than white space.
RECURSIVE SplitFrom(_, _, _, _)
SplitFrom(s, k, tok, acc) ==
    IF k > Len(s)
    THEN IF tok = <<>> THEN acc ELSE Append(acc, tok)
    ELSE IF s[k] = " "
         THEN SplitFrom(s, k + 1, <<>>,
                        IF tok = <<>> THEN acc ELSE Append(acc, tok))
         ELSE SplitFrom(s, k + 1, Append(tok, s[k]), acc)

Split(s) == SplitFrom(s, 1, <<>>, <<>>)

\* A token without its sign.
Unsigned(t) == IF Len(t) > 0 /\ t[1] \in {"-", "+"} THEN Tail(t) ELSE t

\* Whether float(t) returns: an optional sign, then digits with at most one
\* point among them and at least one digit.
IsFloat(t) ==
    LET b == Unsigned(t)
        dots == {k \in 1..Len(b) : b[k] = "."}
        digs == {k \in 1..Len(b) : IsDigit(b[k])}
    IN  /\ Cardinality(dots) <= 1
        /\ Cardinality(digs) >= 1
        /\ dots \cup digs = 1..Len(b)

\* The digits of a token after its point.
FracDigits(t) ==
    LET b == Unsigned(t)
        dots == {k \in 1..Len(b) : b[k] = "."}
    IN  IF dots = {} THEN 0 ELSE Len(b) - (CHOOSE k \in dots : TRUE)

RECURSIVE Mantissa(_, _, _)
Mantissa(b, k, acc) ==
    IF k > Len(b) THEN acc
    ELSE Mantissa(b, k + 1,
                  IF IsDigit(b[k]) THEN 10 * acc + DigitVal(b[k]) ELSE acc)

\* float(t) of a valid token with at most UnitDigits digits after the point,
\* in units of 1/Unit.
FloatVal(t) ==
    LET m == Mantissa(Unsigned(t), 1, 0) * Pow10(UnitDigits - FracDigits(t))
    IN  IF Len(t) > 0 /\ t[1] = "-" THEN -m ELSE m

\* The tokens each version converts.
Tokens(im, s) == IF im = "mapa" THEN Split(BlankMapa(s)) ELSE Split(BlankGerar(s))

ValidTokens(im, s) == SelectSeq(Tokens(im, s), IsFloat)

Vals(ts) == [k \in 1..Len(ts) |-> FloatVal(ts[k])]

(***************************************************************************)
(* parse_svg_path: decoding the numbers.                                   *)
(***************************************************************************)
\* src/svg/mapa.py: list(map(float, filter(None, tokens))): float raises
\* ValueError at a token it cannot convert, and the list is never built.
DecodeMapa(s) ==
    LET ts == Split(BlankMapa(s))
    IN  IF \A k \in 1..Len(ts) : IsFloat(ts[k])
        THEN [err |-> "", coords |-> Vals(ts)]
        ELSE [err |-> "ValueError", coords |-> <<>>]

\* gerar_svg.py: a token float cannot convert is logged and left out; of an odd
\* number of coordinates the last one is dropped.
DecodeGerar(s) ==
    LET cs == Vals(SelectSeq(Split(BlankGerar(s)), IsFloat))
    IN  [err |-> "",
         coords |-> IF Len(cs) % 2 # 0 THEN SubSeq(cs, 1, Len(cs) - 1) ELSE cs]

Decode(im, s) == IF im = "mapa" THEN DecodeMapa(s) ELSE DecodeGerar(s)

(***************************************************************************)
(* parse_svg_path: the walk over the pairs.                                *)
(***************************************************************************)
InitBox == [min_x |-> PInf, max_x |-> NInf, min_y |-> PInf, max_y |-> NInf]

InitCur == [x |-> 0, y |-> 0]

\* A walk that takes each pair as a position instead of a step.
Advance_NoAccum(c, dx, dy) == [x |-> dx, y |-> dy]

\* current_x += dx; current_y += dy
Advance(c, dx, dy) == [x |-> c.x + dx, y |-> c.y + dy]

\* The updates with min and max exchanged.
UpdateBox_Swapped(b, c) ==
    [min_x |-> ExtMax(b.min_x, Fin(c.x)),
     max_x |-> ExtMin(b.max_x, Fin(c.x)),
     min_y |-> ExtMax(b.min_y, Fin(c.y)),
     max_y |-> ExtMin(b.max_y, Fin(c.y))]

\* The four min/max updates of one iteration, at the new current position.
UpdateBox(b, c) ==
    [min_x |-> ExtMin(b.min_x, Fin(c.x)),
     max_x |-> ExtMax(b.max_x, Fin(c.x)),
     min_y |-> ExtMin(b.min_y, Fin(c.y)),
     max_y |-> ExtMax(b.max_y, Fin(c.y))]

\* The loop from index k (0-based) on, as one function: the box returned, or
\* the IndexError of coords[k + 1] beyond the end of the list.
RECURSIVE WalkFrom(_, _, _, _)
WalkFrom(cs, k, c, b) ==
    IF k >= Len(cs) THEN [err |-> "", box |-> b]
    ELSE IF k + 1 >= Len(cs) THEN [err |-> "IndexError", box |-> b]
    ELSE LET c2 == Advance(c, cs[k + 1], cs[k + 2])
         IN  WalkFrom(cs, k + 2, c2, UpdateBox(b, c2))

\* parse_svg_path(d) as a function: [err, box].
ParseSvgPath(im, s) ==
    LET dec == Decode(im, s)
    IN  IF dec.err # "" THEN [err |-> dec.err, box |-> InitBox]
        ELSE WalkFrom(dec.coords, 0, InitCur, InitBox)

(***************************************************************************)
(* The path strings the model enumerates.                                  *)
(***************************************************************************)
Segs ==
    {<<"M", "1", " ", "2">>,
     <<"l", "-", "2", " ", "1">>,
     <<" ", "3">>,
     <<"-">>,
     <<".", "5">>,
     <<",">>,
     <<"z">>}

RECURSIVE Paths(_)
Paths(n) ==
    IF n = 0 THEN {<<>>}
    ELSE Paths(n - 1) \cup {p \o s : p \in Paths(n - 1), s \in Segs}

\* A path whose numbers the model holds exactly.
Exact(s) ==
    \A im \in {"mapa", "gerar"} :
        LET ts == ValidTokens(im, s)
        IN  \A k \in 1..Len(ts) : FracDigits(ts[k]) <= UnitDigits

Impls == {"mapa", "gerar"}

(***************************************************************************)
(* Idle values of the parts a specification does not run.                  *)
(***************************************************************************)
NoRoom == [type |-> "", title |-> "", description |-> ""]
\* Nothing emitted: no icon group and no text; the coordinates of what is not
\* emitted are unused.
NoOut ==
    [kind |-> "none", group |-> FALSE, icon |-> FALSE,
     gx |-> Fin(0), gy |-> Fin(0),
     title |-> FALSE, tx |-> Fin(0), ty |-> Fin(0),
     desc |-> FALSE, bx |-> Fin(0), by |-> Fin(0)]
NoSala ==
    [tipo |-> "", titulo |-> "", descricao |-> "",
     icone_x |-> Fin(0), icone_y |-> Fin(0),
     texto_x |-> Fin(0), texto_y |-> Fin(0)]
NoHr == [dias |-> <<>>, turno |-> "", horarios |-> <<>>]

IdleP ==
    /\ impl = "mapa" /\ d = <<>> /\ pcP = "idle" /\ coords = <<>> /\ i = 0
    /\ cur = InitCur /\ box = InitBox /\ err = ""

IdleL == room = NoRoom /\ sala = NoSala /\ out = NoOut /\ pcL = "idle"

IdleH == elemento = <<>> /\ pos = 0 /\ hr = NoHr /\ pcH = "idle"

IdleO == disciplinas = <<>> /\ dia = 1 /\ tree = <<>> /\ pcO = "idle"

IdleC == call = <<>> /\ ret = <<>> /\ pcC = "idle"

\* No document.
NoSvg == [styles |-> <<>>, elements |-> <<>>, clip_id |-> "", clip_ref |-> ""]
\* Nothing returned yet.
NoLoaded == [kind |-> "none", level |-> "", text |-> NoSvg]
IdleM == level = "" /\ loaded = NoLoaded /\ erroM = "" /\ pcM = "idle"

IdleF ==
    /\ resposta = <<>> /\ dados_json = <<>> /\ alocacoes = <<>>
    /\ cursor = [s |-> 0, c |-> 0]
    /\ erroF = "" /\ pcF = "idle"

\* build_svg_map not running.
IdleBuild ==
    /\ fila = 0 /\ map_name = "" /\ write = FALSE /\ comp = 0
    /\ elements = <<>> /\ styles = <<>> /\ svg = NoSvg /\ svg_prev = NoSvg
    /\ files_before = <<>> /\ erroB = "" /\ pcB = "idle"
IdleB == defs = <<>> /\ files = <<>> /\ IdleBuild

IdleV ==
    /\ alocacoes_sala = <<>> /\ dia_numero = 0 /\ linhas = <<>>
    /\ markdown = <<>> /\ pcV = "idle"
IdleN == IdleC /\ IdleM /\ IdleF /\ IdleB /\ IdleV

(***************************************************************************)
(* parse_svg_path, step by step.                                           *)
(***************************************************************************)
InitParse ==
    /\ impl \in Impls
    /\ d \in {s \in Paths(MaxSegs) : Exact(s)}
    /\ pcP = "start"
    /\ coords = <<>>
    /\ i = 0
    /\ cur = InitCur
    /\ box = InitBox
    /\ err = ""
    /\ IdleL /\ IdleH /\ IdleO /\ IdleN

\* The numbers are decoded, or float raises.
DecodeCoords ==
    /\ pcP = "start"
    /\ LET dec == Decode(impl, d)
       IN  /\ coords' = dec.coords
           /\ err' = dec.err
           /\ pcP' = IF dec.err = "" THEN "walk" ELSE "raised"
    /\ UNCHANGED <<impl, d, i, cur, box>>
    /\ UNCHANGED <<varsL, varsH, varsO, varsN>>

\* One iteration of "for i in range(0, len(coords), 2)".
WalkPair ==
    /\ pcP = "walk"
    /\ i < Len(coords)
    /\ IF i + 1 >= Len(coords)
       THEN /\ pcP' = "raised"
            /\ err' = "IndexError"
            /\ UNCHANGED <<i, cur, box>>
       ELSE /\ cur' = Advance(cur, coords[i + 1], coords[i + 2])
            /\ box' = UpdateBox(box, cur')
            /\ i' = i + 2
            /\ UNCHANGED <<pcP, err>>
    /\ UNCHANGED <<impl, d, coords>>
    /\ UNCHANGED <<varsL, varsH, varsO, varsN>>

\* The loop is over: return min_x, max_x, min_y, max_y.
ReturnBox ==
    /\ pcP = "walk"
    /\ i >= Len(coords)
    /\ pcP' = "done"
    /\ UNCHANGED <<impl, d, coords, i, cur, box, err>>
    /\ UNCHANGED <<varsL, varsH, varsO, varsN>>

NextParse == DecodeCoords \/ WalkPair \/ ReturnBox

SpecParse == InitParse /\ [][NextParse]_vars

(***************************************************************************)
(* The layout of one room.  Layout lengths are in units of 1/(20 * Unit),  *)
(* in which the halves and the 0.15 of the code are whole numbers.         *)
(***************************************************************************)
\* dim = 200, the base dimension of an icon.
Dim == 200
\* The gap of 15 between a label and the text distance.
TextGap == 15
\* gerar_svg.py: the icon is 40 wide and high.
IconeLado == 40
\* gerar_svg.py: distancia_texto = 15.
DistanciaTexto == 15

\* n path units as a layout length.
LU(n) == n * 20 * Unit

\* Every enumerated type taken as one with an icon.
Recognized_All ==
    {"sala-de-aula", "sala-de-professor", "banheiro-masculino",
     "banheiro-feminino", "biblioteca", "auditorio", "laboratorio",
     "laboratorio-de-pesquisa", "generico", "deposito", "none"}

\* The types create_path_element loads an icon for.
Recognized ==
    {"sala-de-aula", "sala-de-professor", "banheiro-masculino",
     "banheiro-feminino", "biblioteca", "auditorio", "laboratorio",
     "laboratorio-de-pesquisa", "generico"}

\* (lo + hi) / 2
Center(lo, hi) == ExtTimes(ExtAdd(lo, hi), 10)

\* (hi - lo) * 0.15
Fifteen100(lo, hi) == ExtTimes(ExtSub(hi, lo), 3)

\* calculate_transform with svg_width = svg_height = dim and scale 0.25:
\* c - (dim * 0.25) / 2.
TranslateOf(c) == ExtSub(c, Fin(LU(Dim) \div 8))

\* A gap that is there whatever the text and the type are.
GapOf_Always(text, type) == LU(TextGap)

\* The extra gap of a label: 0 if the text is empty and the type is "none".
GapOf(text, type) == IF text = "" /\ type = "none" THEN 0 ELSE LU(TextGap)

\* A create_path_element that computes the box before it looks at the type.
CreatePathElementOf_ParseFirst(r, s) ==
    LET p == ParseSvgPath("mapa", s)
    IN  IF p.err # "" THEN [err |-> p.err, out |-> NoOut]
        ELSE [err |-> "", out |-> [NoOut EXCEPT !.kind = "path"]]

\* src/svg/mapa.py, create_path_element: a room without type gives the bare
\* path and parse_svg_path is not called; otherwise the path, the icon group
\* (whose icon is empty for a type that is not recognized) and the two text
\* elements are emitted, at positions computed from the box.
CreatePathElementOf(r, s) ==
    IF r.type = "" THEN [err |-> "", out |-> [NoOut EXCEPT !.kind = "path"]]
    ELSE
      LET p == ParseSvgPath("mapa", s)
          b == p.box
          center_x == Center(b.min_x, b.max_x)
          center_y == Center(b.min_y, b.max_y)
          text_distance ==
              IF r.type \in Recognized THEN Fifteen100(b.min_y, b.max_y)
              ELSE Fin((LU(Dim) * 3) \div 20)
      IN  IF p.err # "" THEN [err |-> p.err, out |-> NoOut]
          ELSE [err |-> "",
                out |-> [kind |-> "typed",
                         group |-> TRUE,
                         icon |-> r.type \in Recognized,
                         gx |-> TranslateOf(center_x),
                         gy |-> TranslateOf(center_y),
                         title |-> TRUE,
                         tx |-> center_x,
                         ty |-> ExtSub(ExtSub(center_y, text_distance),
                                       Fin(GapOf(r.title, r.type))),
                         desc |-> TRUE,
                         bx |-> center_x,
                         by |-> ExtAdd(ExtAdd(center_y, text_distance),
                                       Fin(GapOf(r.description, r.type)))]]

\* gerar_svg.py, criar_sala: the icon is put 20 left of and above the centre of
\* the box, the text at the centre.
CriarSalaOf(r, s) ==
    LET b == ParseSvgPath("gerar", s).box
        centerX == Center(b.min_x, b.max_x)
        centerY == Center(b.min_y, b.max_y)
    IN  [tipo |-> r.type, titulo |-> r.title, descricao |-> r.description,
         icone_x |-> ExtSub(centerX, Fin(LU(IconeLado) \div 2)),
         icone_y |-> ExtSub(centerY, Fin(LU(IconeLado) \div 2)),
         texto_x |-> centerX, texto_y |-> centerY]

\* gerar_svg.py, gerar_elemento_svg: the bare path for a room without type;
\* otherwise the icon group and a text for each of title and description that
\* is not empty, 15 above and below the text position.
GerarElementoSvgOf(sl) ==
    IF sl.tipo = "" THEN [NoOut EXCEPT !.kind = "path"]
    ELSE [kind |-> "typed",
          group |-> TRUE,
          icon |-> TRUE,
          gx |-> sl.icone_x,
          gy |-> sl.icone_y,
          title |-> sl.titulo # "",
          tx |-> sl.texto_x,
          ty |-> ExtSub(sl.texto_y, Fin(LU(DistanciaTexto))),
          desc |-> sl.descricao # "",
          bx |-> sl.texto_x,
          by |-> ExtAdd(sl.texto_y, Fin(LU(DistanciaTexto)))]

RoomTypes == {"", "sala-de-aula", "deposito", "none"}

Rooms ==
    [type : RoomTypes, title : {"", "CI 101"}, description : {"", "aula"}]

InitLayout ==
    /\ impl \in Impls
    /\ d \in {s \in Paths(MaxSegsLayout) : Exact(s)}
    /\ pcP = "idle"
    /\ coords = <<>>
    /\ i = 0
    /\ cur = InitCur
    /\ box = InitBox
    /\ err = ""
    /\ room \in Rooms
    /\ sala = NoSala
    /\ out = NoOut
    /\ pcL = "start"
    /\ IdleH /\ IdleO /\ IdleN

\* src/svg/mapa.py: create_path_element(props).
CreatePathElement ==
    /\ impl = "mapa"
    /\ pcL = "start"
    /\ LET r == CreatePathElementOf(room, d)
       IN  /\ out' = r.out
           /\ err' = r.err
           /\ pcL' = IF r.err = "" THEN "done" ELSE "raised"
    /\ UNCHANGED <<impl, d, pcP, coords, i, cur, box, room, sala>>
    /\ UNCHANGED <<varsH, varsO, varsN>>

\* gerar_svg.py: criar_sala(component).
CriarSala ==
    /\ impl = "gerar"
    /\ pcL = "start"
    /\ sala' = CriarSalaOf(room, d)
    /\ pcL' = "sala"
    /\ UNCHANGED <<varsP, room, out>>
    /\ UNCHANGED <<varsH, varsO, varsN>>

\* gerar_svg.py: gerar_elemento_svg(sala).
GerarElementoSvg ==
    /\ impl = "gerar"
    /\ pcL = "sala"
    /\ out' = GerarElementoSvgOf(sala)
    /\ pcL' = "done"
    /\ UNCHANGED <<varsP, room, sala>>
    /\ UNCHANGED <<varsH, varsO, varsN>>

NextLayout == CreatePathElement \/ CriarSala \/ GerarElementoSvg

SpecLayout == InitLayout /\ [][NextLayout]_vars

(***************************************************************************)
(* desestruturar_horario.                                                  *)
(***************************************************************************)
\* An iteration whose test of turno is inverted.
HorarioStep_Inverted(h, char) ==
    IF IsDigit(char)
    THEN IF h.turno # ""
         THEN [h EXCEPT !.dias = Append(@, DigitVal(char))]
         ELSE [h EXCEPT !.horarios = Append(@, DigitVal(char))]
    ELSE IF IsAlpha(char)
         THEN [h EXCEPT !.turno = char]
         ELSE h

\* One iteration of "for char in elemento": a digit goes to dias while turno
\* is empty and to horarios afterwards; a letter is assigned to turno; any
\* other character is passed over.
HorarioStep(h, char) ==
    IF IsDigit(char)
    THEN IF h.turno = ""
         THEN [h EXCEPT !.dias = Append(@, DigitVal(char))]
         ELSE [h EXCEPT !.horarios = Append(@, DigitVal(char))]
    ELSE IF IsAlpha(char)
         THEN [h EXCEPT !.turno = char]
         ELSE h

\* The loop from character k on.
RECURSIVE HorarioFrom(_, _, _)
HorarioFrom(e, k, h) ==
    IF k > Len(e) THEN h ELSE HorarioFrom(e, k + 1, HorarioStep(h, e[k]))

\* desestruturar_horario(elemento) as a function.
DesestruturarHorario(e) == HorarioFrom(e, 1, NoHr)

\* SUPERSCRIPT TWO (U+00B2), written "^2": a character for which
\* str.isdigit() is true and int() raises ValueError, as for every character
\* that is a digit and not a decimal.
SuperDigits == {"^2"}

CodeAlphabet == {"2", "3", "M", "T", "-", "^2"}

RECURSIVE Codes(_)
Codes(n) ==
    IF n = 0 THEN {<<>>}
    ELSE Codes(n - 1) \cup {Append(c, x) : c \in Codes(n - 1), x \in CodeAlphabet}

\* "35T45", "2M2345", "3T12", "2E1", and codes that are not well formed.
Code35T45 == <<"3", "5", "T", "4", "5">>
Code2M2345 == <<"2", "M", "2", "3", "4", "5">>
Code3T12 == <<"3", "T", "1", "2">>
Code2E1 == <<"2", "E", "1">>
Code2M1 == <<"2", "M", "1">>
Code2X12 == <<"2", "X", "1", "2">>
Code23 == <<"2", "3">>
Code2M3T4 == <<"2", "M", "3", "T", "4">>

InitHorario ==
    /\ elemento \in Codes(MaxCodeLen) \cup {Code35T45, Code2M2345, Code2M3T4}
    /\ pos = 0
    /\ hr = NoHr
    /\ pcH = "scan"
    /\ IdleP /\ IdleL /\ IdleO /\ IdleN

\* The next character of elemento is scanned; int(char) of a digit that is
\* no decimal raises ValueError, which leaves desestruturar_horario.
ScanChar ==
    /\ pcH = "scan"
    /\ pos < Len(elemento)
    /\ IF elemento[pos + 1] \in SuperDigits
       THEN /\ pcH' = "raised"
            /\ UNCHANGED <<hr, pos>>
       ELSE /\ hr' = HorarioStep(hr, elemento[pos + 1])
            /\ pos' = pos + 1
            /\ UNCHANGED pcH
    /\ UNCHANGED elemento
    /\ UNCHANGED <<varsP, varsL, varsO, varsN>>

\* return {"dias": dias, "turno": turno, "horarios": horarios}
ReturnHorario ==
    /\ pcH = "scan"
    /\ pos = Len(elemento)
    /\ pcH' = "done"
    /\ UNCHANGED <<elemento, pos, hr>>
    /\ UNCHANGED <<varsP, varsL, varsO, varsN>>

NextHorario == ScanChar \/ ReturnHorario

SpecHorario == InitHorario /\ [][NextHorario]_vars

(***************************************************************************)
(* exibir_hierarquia: the branch of one room.                              *)
(***************************************************************************)
\* for dia in range(1, 7 + 1)
NumDias == 7
\* for horario in range(1, 6 + 1)
NumHorarios == 6
\* The shifts in alphabetical order.
Turnos_Alfabetico == <<"E", "M", "N", "T">>

\* for turno in ["M", "T", "N", "E"]
Turnos == <<"M", "T", "N", "E">>

\* x in list
InSeq(x, sq) == \E k \in 1..Len(sq) : sq[k] = x

\* The leaves added while the outer loop is at day dy: the loops over turno,
\* horario and disciplina, nested in this order, add a leaf for each of their
\* combinations that the discipline's decoded schedule holds.  Leaf p of the
\* nest is (turno, horario, disciplina) number p, the disciplina running
\* fastest.
LeavesOfDia(ds, dy) ==
    LET n == Len(ds)
        hs == [k \in 1..n |-> DesestruturarHorario(ds[k])]
        At(p) ==
            [dia |-> dy,
             turno |-> Turnos[((p - 1) \div (NumHorarios * n)) + 1],
             horario |-> (((p - 1) \div n) % NumHorarios) + 1,
             k |-> ((p - 1) % n) + 1]
        Match(l) ==
            /\ InSeq(l.dia, hs[l.k].dias)
            /\ l.turno = hs[l.k].turno
            /\ InSeq(l.horario, hs[l.k].horarios)
    IN  SelectSeq([p \in 1..(Len(Turnos) * NumHorarios * n) |-> At(p)], Match)

OrdCodes == {Code2M2345, Code3T12, Code2E1, Code2M1, Code35T45, Code2X12, Code23}

RECURSIVE Lists(_)
Lists(n) ==
    IF n = 0 THEN {<<>>}
    ELSE Lists(n - 1) \cup {Append(l, c) : l \in Lists(n - 1), c \in OrdCodes}

InitOrdem ==
    /\ disciplinas \in Lists(MaxDisc) \ {<<>>}
    /\ dia = 1
    /\ tree = <<>>
    /\ pcO = "loop"
    /\ IdleP /\ IdleL /\ IdleH /\ IdleN

\* One iteration of "for dia in list(range(1, 7 + 1))".
DiaIter ==
    /\ pcO = "loop"
    /\ dia <= NumDias
    /\ tree' = tree \o LeavesOfDia(disciplinas, dia)
    /\ dia' = dia + 1
    /\ UNCHANGED <<disciplinas, pcO>>
    /\ UNCHANGED <<varsP, varsL, varsH, varsN>>

\* The loop is over: the tree is printed.
ExibirTree ==
    /\ pcO = "loop"
    /\ dia > NumDias
    /\ pcO' = "done"
    /\ UNCHANGED <<disciplinas, dia, tree>>
    /\ UNCHANGED <<varsP, varsL, varsH, varsN>>

NextOrdem == DiaIter \/ ExibirTree

SpecOrdem == InitOrdem /\ [][NextOrdem]_vars

(***************************************************************************)
(* Rational numbers n/dn with dn > 0, for the results of true divisions.   *)
(***************************************************************************)
Rat(n, dn) == [n |-> n, dn |-> dn]
RatInt(n) == Rat(n, 1)
RatEq(a, b) == a.n * b.dn = b.n * a.dn
RatLT(a, b) == a.n * b.dn < b.n * a.dn
RatLE(a, b) == a.n * b.dn <= b.n * a.dn
RatAdd(a, b) == Rat(a.n * b.dn + b.n * a.dn, a.dn * b.dn)
RatSub(a, b) == Rat(a.n * b.dn - b.n * a.dn, a.dn * b.dn)
RatMul(a, b) == Rat(a.n * b.n, a.dn * b.dn)
\* a / 2
RatHalf(a) == Rat(a.n, 2 * a.dn)

(***************************************************************************)
(* calculate_font_size.                                                    *)
(***************************************************************************)
\* scale_factor = 0.8 = ScaleNum / ScaleDen
ScaleNum == 4
ScaleDen == 5
\* The base font sizes of the title and of the description.
BaseTitulo == 16
BaseDescricao == 12

\* A size that is never shrunk.
CalculateFontSize_NoShrink(base_font_size, text, width) ==
    [err |-> "", size |-> RatInt(base_font_size)]

\* calculate_font_size(base_font_size, text, width), width a whole number:
\* needed_width = len(text) * base_font_size * 0.8; when it exceeds width the
\* size is width / (len(text) * 0.8), a true division, which raises
\* ZeroDivisionError for an empty text; else the size is base_font_size.
CalculateFontSize(base_font_size, text, width) ==
    LET needed_width == Rat(Len(text) * base_font_size * ScaleNum, ScaleDen)
    IN  IF RatLT(RatInt(width), needed_width)
        THEN IF Len(text) = 0
             THEN [err |-> "ZeroDivisionError", size |-> RatInt(0)]
             ELSE [err |-> "",
                   size |-> Rat(width * ScaleDen, Len(text) * ScaleNum)]
        ELSE [err |-> "", size |-> RatInt(base_font_size)]

\* Longest enumerated text.
MaxTextLen == 3
\* Widest enumerated width.
MaxWidth == 30

RECURSIVE Texts(_)
Texts(n) ==
    IF n = 0 THEN {<<>>}
    ELSE Texts(n - 1) \cup {Append(t, c) : t \in Texts(n - 1), c \in {"A", "b"}}

TextA == <<"A">>
TextVeryLong ==
    <<"V", "E", "R", "Y", " ", "L", "O", "N", "G", " ", "T", "I", "T", "L",
      "E", " ", "T", "E", "X", "T">>

InitFont ==
    /\ call \in [base : {BaseTitulo, BaseDescricao},
                 text : Texts(MaxTextLen),
                 width : (-2)..MaxWidth]
            \cup {[base |-> 16, text |-> TextA, width |-> 1000],
                  [base |-> 16, text |-> TextVeryLong, width |-> 10]}
    /\ ret = <<>>
    /\ pcC = "font"
    /\ IdleP /\ IdleL /\ IdleH /\ IdleO /\ IdleV
    /\ IdleM /\ IdleF /\ IdleB

CalcFontSize ==
    /\ pcC = "font"
    /\ ret' = CalculateFontSize(call.base, call.text, call.width)
    /\ pcC' = "done"
    /\ UNCHANGED call
    /\ UNCHANGED <<varsP, varsL, varsH, varsO, varsM, varsF, varsB, varsV>>

NextFont == CalcFontSize

SpecFont == InitFont /\ [][NextFont]_vars

(***************************************************************************)
(* calculate_transform.                                                    *)
(***************************************************************************)
\* A translation by the whole scaled size.
CalculateTransform_NoHalf(cx, cy, svg_width, svg_height, scale_factor) ==
    [translate_x |-> RatSub(cx, RatMul(RatInt(svg_width), scale_factor)),
     translate_y |-> RatSub(cy, RatMul(RatInt(svg_height), scale_factor)),
     scale |-> scale_factor]

\* calculate_transform(cx, cy, svg_width, svg_height, scale_factor): the
\* numbers of "translate(x, y) scale(s)".
CalculateTransform(cx, cy, svg_width, svg_height, scale_factor) ==
    LET scaled_width == RatMul(RatInt(svg_width), scale_factor)
        scaled_height == RatMul(RatInt(svg_height), scale_factor)
    IN  [translate_x |-> RatSub(cx, RatHalf(scaled_width)),
         translate_y |-> RatSub(cy, RatHalf(scaled_height)),
         scale |-> scale_factor]

\* The boxes, icon dimensions and scales enumerated.
TransformBoxes ==
    [min_x : {0, -5}, max_x : {100, 16}, min_y : {0, 3}, max_y : {100, 40}]

InitTransform ==
    /\ call \in [b : TransformBoxes,
                 dim : {Dim, IconeLado},
                 scale : {Rat(1, 4), Rat(1, 2), Rat(1, 1)}]
    /\ ret = <<>>
    /\ pcC = "transform"
    /\ IdleP /\ IdleL /\ IdleH /\ IdleO /\ IdleV
    /\ IdleM /\ IdleF /\ IdleB

\* The call of create_path_element: the centre of the box, a square icon.
CalcTransform ==
    /\ pcC = "transform"
    /\ ret' = CalculateTransform(Rat(call.b.min_x + call.b.max_x, 2),
                                 Rat(call.b.min_y + call.b.max_y, 2),
                                 call.dim, call.dim, call.scale)
    /\ pcC' = "done"
    /\ UNCHANGED call
    /\ UNCHANGED <<varsP, varsL, varsH, varsO, varsM, varsF, varsB, varsV>>

NextTransform == CalcTransform

SpecTransform == InitTransform /\ [][NextTransform]_vars

(***************************************************************************)
(* load_map (src/svg/mapa.py) and carregar_mapa_svg (webapp.py): the same  *)
(* code under two names.                                                   *)
(***************************************************************************)
\* The floors, as named by the files of assets/processado and assets/raw.
Andares ==
    <<"subsolo", "terreo", "primeiro_andar", "segundo_andar", "terceiro_andar">>

AndarSet == {Andares[k] : k \in 1..Len(Andares)}

\* The names offered to the user (accents left out).
Niveis ==
    {"Subsolo", "Terreo", "Primeiro Andar", "Segundo Andar", "Terceiro Andar"}

\* arquivos_svg: the floor whose processed file a name stands for.
ArquivosSvg(lv) ==
    CASE lv = "Subsolo" -> "subsolo"
      [] lv = "Terreo" -> "terreo"
      [] lv = "Primeiro Andar" -> "primeiro_andar"
      [] lv = "Segundo Andar" -> "segundo_andar"
      [] lv = "Terceiro Andar" -> "terceiro_andar"

\* f"O mapa SVG do {level} nao foi encontrado."
NotFoundMessage(lv) == [kind |-> "not_found", level |-> lv, text |-> NoSvg]

\* A file of assets/processado: absent, present but not readable by this
\* process, or present with a document.
Absent == [state |-> "absent", text |-> NoSvg]
Unreadable == [state |-> "unreadable", text |-> NoSvg]
Stored(t) == [state |-> "present", text |-> t]

\* The text read from a stored document.
SvgText(t) == [kind |-> "svg", level |-> "", text |-> t]

\* A file of assets/processado left by an earlier run.
OldSvg == [NoSvg EXCEPT !.clip_id = "old"]

\* open(...).read() under "except FileNotFoundError": a missing file gives the
\* message; any other OSError of open() is not caught.
OpenAndRead(lv, f) ==
    CASE f.state = "present" ->
            [err |-> "", loaded |-> SvgText(f.text)]
      [] f.state = "absent" ->
            [err |-> "", loaded |-> NotFoundMessage(lv)]
      [] f.state = "unreadable" ->
            [err |-> "PermissionError", loaded |-> NoLoaded]

InitLoad ==
    /\ level \in Niveis \cup {"Quarto Andar"}
    /\ files \in [AndarSet -> {Absent, Unreadable, Stored(OldSvg)}]
    /\ loaded = NoLoaded
    /\ erroM = ""
    /\ pcM = "start"
    /\ defs = <<>>
    /\ IdleBuild
    /\ IdleP /\ IdleL /\ IdleH /\ IdleO /\ IdleV
    /\ IdleC /\ IdleF

\* caminho_arquivo = arquivos_svg.get(level, None); None returns the message.
LookupLevel ==
    /\ pcM = "start"
    /\ IF level \in Niveis
       THEN /\ pcM' = "open"
            /\ UNCHANGED loaded
       ELSE /\ pcM' = "done"
            /\ loaded' = NotFoundMessage(level)
    /\ UNCHANGED <<level, erroM>>
    /\ UNCHANGED <<varsP, varsL, varsH, varsO, varsC, varsF, varsB, varsV>>

\* The try block.
OpenFile ==
    /\ pcM = "open"
    /\ LET r == OpenAndRead(level, files[ArquivosSvg(level)])
       IN  /\ erroM' = r.err
           /\ loaded' = r.loaded
    /\ pcM' = "done"
    /\ UNCHANGED level
    /\ UNCHANGED <<varsP, varsL, varsH, varsO, varsC, varsF, varsB, varsV>>

NextLoad == LookupLevel \/ OpenFile

SpecLoad == InitLoad /\ [][NextLoad]_vars

(***************************************************************************)
(* The schedule feed: baixar_json and descarregar_conteudo (src/utils.py). *)
(* A schedule entry is [id, missing]: missing names a required key the     *)
(* entry lacks, "" when it has them all.  A room is [id, classes].         *)
(***************************************************************************)
\* Most rooms of a feed, most entries of a room.
MaxSalas == 2
MaxClasses == 2

\* The entries enumerated: two complete ones, one without 'horario'.
Items ==
    {[id |-> 1, missing |-> ""],
     [id |-> 2, missing |-> ""],
     [id |-> 3, missing |-> "horario"]}

RECURSIVE SeqsUpTo(_, _)
SeqsUpTo(S, n) ==
    IF n = 0 THEN {<<>>}
    ELSE SeqsUpTo(S, n - 1)
            \cup {Append(q, x) : q \in SeqsUpTo(S, n - 1), x \in S}

\* The rooms of solution.solution, each with its entries.
FeedSalas == {[classes |-> cs] : cs \in SeqsUpTo(Items, MaxClasses)}

\* The document of a 2xx response: the header keys and the rooms.
FeedBodies ==
    {[header |-> TRUE, solution |-> ss] : ss \in SeqsUpTo(FeedSalas, MaxSalas)}

\* {}
EmptyDict == [header |-> FALSE, solution |-> <<>>]

\* baixar_json: a 2xx response gives its document; raise_for_status raises
\* HTTPStatusError on any other status, which is caught and gives {}; an
\* error of httpx.get itself (no connection, timeout) is not caught.
BaixarJsonOf(r) ==
    CASE r.kind = "ok" -> [err |-> "", dados |-> r.body]
      [] r.kind = "http_error" -> [err |-> "", dados |-> EmptyDict]
      [] r.kind = "network_error" -> [err |-> "ConnectError", dados |-> <<>>]

\* Alocacao(centro, sala, disciplina), by the places of room and entry.
AlocacaoOf(s, item) == [sala |-> s, disciplina |-> item.id]

InitFeed ==
    /\ resposta \in {[kind |-> "ok", body |-> bd] : bd \in FeedBodies}
            \cup {[kind |-> "http_error", body |-> EmptyDict],
                  [kind |-> "network_error", body |-> EmptyDict]}
    /\ dados_json = <<>>
    /\ alocacoes = <<>>
    /\ cursor = [s |-> 0, c |-> 0]
    /\ erroF = ""
    /\ pcF = "get"
    /\ IdleP /\ IdleL /\ IdleH /\ IdleO /\ IdleV
    /\ IdleC /\ IdleM /\ IdleB

\* dados_json = baixar_json(url)
BaixarJson ==
    /\ pcF = "get"
    /\ LET r == BaixarJsonOf(resposta)
       IN  /\ erroF' = r.err
           /\ dados_json' = r.dados
           /\ pcF' = IF r.err = "" THEN "centro" ELSE "raised"
    /\ UNCHANGED <<resposta, alocacoes, cursor>>
    /\ UNCHANGED <<varsP, varsL, varsH, varsO, varsC, varsM, varsB, varsV>>

\* Centro(id=dados_json["id"].strip(), ...); conteudo = dados_json["solution"]
CriarCentro ==
    /\ pcF = "centro"
    /\ IF dados_json.header
       THEN /\ pcF' = "loop"
            /\ cursor' = [s |-> 1, c |-> 1]
            /\ UNCHANGED erroF
       ELSE /\ pcF' = "raised"
            /\ erroF' = "KeyError"
            /\ UNCHANGED cursor
    /\ UNCHANGED <<resposta, dados_json, alocacoes>>
    /\ UNCHANGED <<varsP, varsL, varsH, varsO, varsC, varsM, varsB, varsV>>

\* One step of the two nested loops: leave the outer loop and return, move to
\* the next room, or build the Disciplina of the entry (item[key] raises
\* KeyError for a key the entry lacks) and append its Alocacao.
IterarClasse ==
    /\ pcF = "loop"
    /\ IF cursor.s > Len(dados_json.solution)
       THEN /\ pcF' = "done"
            /\ UNCHANGED <<alocacoes, cursor, erroF>>
       ELSE LET classes == dados_json.solution[cursor.s].classes
            IN  IF cursor.c > Len(classes)
                THEN /\ cursor' = [s |-> cursor.s + 1, c |-> 1]
                     /\ UNCHANGED <<alocacoes, erroF, pcF>>
                ELSE IF classes[cursor.c].missing # ""
                THEN /\ erroF' = "KeyError"
                     /\ pcF' = "raised"
                     /\ UNCHANGED <<alocacoes, cursor>>
                ELSE /\ alocacoes' =
                            Append(alocacoes,
                                   AlocacaoOf(cursor.s, classes[cursor.c]))
                     /\ cursor' = [cursor EXCEPT !.c = @ + 1]
                     /\ UNCHANGED <<erroF, pcF>>
    /\ UNCHANGED <<resposta, dados_json>>
    /\ UNCHANGED <<varsP, varsL, varsH, varsO, varsC, varsM, varsB, varsV>>

NextFeed == BaixarJson \/ CriarCentro \/ IterarClasse

SpecFeed == InitFeed /\ [][NextFeed]_vars

(***************************************************************************)
(* build_svg_map and the batch of __main__ (src/svg/mapa.py).  A floor     *)
(* definition file is missing, malformed (not JSON) or a list of           *)
(* components; a component is a record of the keys the build reads.        *)
(***************************************************************************)
\* Most components of an enumerated floor.
MaxRooms == 2

\* Strings as sequences of characters, for the path of a component.
PathM1_2 == <<"M", "1", " ", "2">>
PathM1_2l == <<"M", "1", " ", "2", "l", "-", "2", " ", "1">>
PathDash == <<"-">>

\* The components enumerated: a class room with id and title; a hall with a
\* title and a hover colour; a bare path with neither id nor title; a typed
\* room with neither; a room whose path makes the layout raise.
Componentes ==
    {[id |-> "a1", title |-> "CI 101", type |-> "sala-de-aula",
      description |-> "aula", colorOnHover |-> "", d |-> PathM1_2l,
      fill |-> "#EEE", fillRule |-> "evenodd", stroke |-> "#000",
      strokeWidth |-> "1", strokeLinecap |-> "", strokeLinejoin |-> ""],
     [id |-> "", title |-> "Hall", type |-> "",
      description |-> "", colorOnHover |-> "#FF0000", d |-> PathM1_2,
      fill |-> "#EEE", fillRule |-> "", stroke |-> "#000",
      strokeWidth |-> "", strokeLinecap |-> "butt", strokeLinejoin |-> ""],
     [id |-> "", title |-> "", type |-> "",
      description |-> "", colorOnHover |-> "", d |-> PathM1_2l,
      fill |-> "", fillRule |-> "", stroke |-> "",
      strokeWidth |-> "", strokeLinecap |-> "", strokeLinejoin |-> ""],
     [id |-> "", title |-> "", type |-> "sala-de-aula",
      description |-> "aula", colorOnHover |-> "#FF0000", d |-> PathM1_2,
      fill |-> "#EEE", fillRule |-> "", stroke |-> "",
      strokeWidth |-> "", strokeLinecap |-> "", strokeLinejoin |-> ""],
     [id |-> "b2", title |-> "", type |-> "deposito",
      description |-> "", colorOnHover |-> "#00FF00", d |-> PathDash,
      fill |-> "", fillRule |-> "", stroke |-> "",
      strokeWidth |-> "", strokeLinecap |-> "", strokeLinejoin |-> "round"]}

Missing == [kind |-> "missing", rooms |-> <<>>]
Malformed == [kind |-> "malformed", rooms |-> <<>>]
Definition(rs) == [kind |-> "ok", rooms |-> rs]

\* The definitions of the floor built alone, and those of a batch.
FloorDefs ==
    {Missing, Malformed}
        \cup {Definition(rs) : rs \in SeqsUpTo(Componentes, MaxRooms)}

GoodRooms ==
    <<[id |-> "a1", title |-> "CI 101", type |-> "sala-de-aula",
       description |-> "aula", colorOnHover |-> "", d |-> PathM1_2l,
       fill |-> "#EEE", fillRule |-> "evenodd", stroke |-> "#000",
       strokeWidth |-> "1", strokeLinecap |-> "", strokeLinejoin |-> ""],
      [id |-> "", title |-> "Hall", type |-> "",
       description |-> "", colorOnHover |-> "#FF0000", d |-> PathM1_2,
       fill |-> "#EEE", fillRule |-> "", stroke |-> "#000",
       strokeWidth |-> "", strokeLinecap |-> "butt", strokeLinejoin |-> ""]>>

BatchDefs == {Missing, Malformed, Definition(GoodRooms)}

\* id if id != "" else title
IdOrTitle(c) == IF c.id # "" THEN c.id ELSE c.title

\* The default hover colour.
DefaultHover == "#B2BCBE"

\* The <a id=...> element of a component: its id, the d of its path and what
\* create_path_element lays out for it.
\* params of create_path_element, the d of the path left aside: those of a
\* room without type, and those of a typed room.
PathParams(props) ==
    IF props.type = ""
    THEN <<[key |-> "fill", value |-> props.fill],
           [key |-> "fill-rule", value |-> props.fillRule],
           [key |-> "id", value |-> props.id],
           [key |-> "stroke", value |-> props.stroke],
           [key |-> "stroke-width", value |-> props.strokeWidth],
           [key |-> "stroke-linecap", value |-> props.strokeLinecap],
           [key |-> "stroke-linejoin", value |-> props.strokeLinejoin]>>
    ELSE <<[key |-> "fill", value |-> props.fill],
           [key |-> "fill-rule", value |-> props.fillRule],
           [key |-> "id", value |-> IdOrTitle(props)],
           [key |-> "class", value |-> props.type]>>

NotEmpty(p) == p.value # ""

\* attributes: the params whose value is not empty.
PathAttributes(props) == SelectSeq(PathParams(props), NotEmpty)

AnchorFrom(c, r) ==
    [err |-> r.err,
     el |-> [id |-> IdOrTitle(c), d |-> c.d, attrs |-> PathAttributes(c),
             out |-> r.out]]

AnchorOf(c) == AnchorFrom(c, CreatePathElementOf(c, c.d))

\* A rule whose fill is the colour of the component, empty or not.
RuleOf_NoDefault(c) == [selector |-> IdOrTitle(c), fill |-> c.colorOnHover]

\* The hover rule of a component.
RuleOf(c) ==
    [selector |-> IdOrTitle(c),
     fill |-> IF c.colorOnHover = "" THEN DefaultHover ELSE c.colorOnHover]

\* svg_content
SvgContent(st, el) ==
    [styles |-> st, elements |-> el,
     clip_id |-> "g11a8898941b_2_54.0", clip_ref |-> "g11a8898941b_2_160.0"]

\* An element put at the front of a list.
Push_Front(list, x) == <<x>> \o list

\* list.append(x)
Push(list, x) == Append(list, x)

\* A list that keeps what an earlier build left in it.
StartList_Kept(prev) == prev

\* elements = [] and styles = []: each build starts from empty lists.
StartList(prev) == <<>>

\* Files touched before the definition is read.
FilesAfter_Early(step, fs, name, content, wr) ==
    IF step \in {"load", "write"} /\ wr
    THEN [fs EXCEPT ![name] = Stored(content)]
    ELSE fs

\* The files of assets/processado after a step of build_svg_map: only the
\* last step writes, and only when write is true.
FilesAfter(step, fs, name, content, wr) ==
    IF step = "write" /\ wr
    THEN [fs EXCEPT ![name] = Stored(content)]
    ELSE fs

InitBuild ==
    /\ files \in {[f \in AndarSet |-> Absent],
                  [f \in AndarSet |-> Stored(OldSvg)]}
    /\ \/ /\ fila = 0
          /\ map_name = "terreo"
          /\ write \in BOOLEAN
          /\ defs \in {[f \in AndarSet |-> IF f = "terreo" THEN fd ELSE Missing]
                          : fd \in FloorDefs}
       \/ /\ fila = 1
          /\ map_name = Andares[1]
          /\ write = TRUE
          /\ defs \in [AndarSet -> BatchDefs]
    /\ comp = 0
    /\ elements = <<>>
    /\ styles = <<>>
    /\ svg = NoSvg
    /\ svg_prev = NoSvg
    /\ files_before = files
    /\ erroB = ""
    /\ pcB = "load"
    /\ IdleP /\ IdleL /\ IdleH /\ IdleO /\ IdleV
    /\ IdleC /\ IdleM /\ IdleF

\* os.path.isfile and json.load: a missing or malformed definition raises;
\* otherwise rects is built and elements starts empty.
LoadDefinition ==
    /\ pcB = "load"
    /\ files' = FilesAfter("load", files, map_name, NoSvg, write)
    /\ IF defs[map_name].kind = "ok"
       THEN /\ pcB' = "elements"
            /\ elements' = StartList(elements)
            /\ comp' = 1
            /\ UNCHANGED erroB
       ELSE /\ pcB' = "raised"
            /\ erroB' = "Exception"
            /\ UNCHANGED <<elements, comp>>
    /\ UNCHANGED <<defs, fila, map_name, write, styles, svg, svg_prev,
                   files_before>>
    /\ UNCHANGED <<varsP, varsL, varsH, varsO, varsC, varsM, varsF, varsV>>

\* elements.append(...) with the anchor a of the component, unless
\* create_path_element raised, which leaves build_svg_map.
AppendAnchor(a) ==
    IF a.err # ""
    THEN /\ pcB' = "raised"
         /\ erroB' = a.err
         /\ UNCHANGED <<elements, styles, comp>>
    ELSE /\ elements' = Push(elements, a.el)
         /\ comp' = comp + 1
         /\ UNCHANGED <<styles, erroB, pcB>>

\* One turn of "for component in map_data", or its end: styles = [].
AppendElement ==
    /\ pcB = "elements"
    /\ files' = FilesAfter("elements", files, map_name, NoSvg, write)
    /\ LET map_data == defs[map_name].rooms
       IN  IF comp > Len(map_data)
           THEN /\ pcB' = "styles"
                /\ styles' = StartList(styles)
                /\ comp' = 1
                /\ UNCHANGED <<elements, erroB>>
           ELSE AppendAnchor(AnchorOf(map_data[comp]))
    /\ UNCHANGED <<defs, fila, map_name, write, svg, svg_prev, files_before>>
    /\ UNCHANGED <<varsP, varsL, varsH, varsO, varsC, varsM, varsF, varsV>>

\* One turn of "for rect in rects": nothing for a component without id and
\* title, else its rule.
AppendStyle ==
    /\ pcB = "styles"
    /\ files' = FilesAfter("styles", files, map_name, NoSvg, write)
    /\ LET rects == defs[map_name].rooms
       IN  IF comp > Len(rects)
           THEN /\ pcB' = "write"
                /\ UNCHANGED <<styles, comp>>
           ELSE /\ styles' =
                    IF rects[comp].id = "" /\ rects[comp].title = ""
                    THEN styles
                    ELSE Push(styles, RuleOf(rects[comp]))
                /\ comp' = comp + 1
                /\ UNCHANGED pcB
    /\ UNCHANGED <<defs, fila, map_name, write, elements, svg, svg_prev,
                   files_before, erroB>>
    /\ UNCHANGED <<varsP, varsL, varsH, varsO, varsC, varsM, varsF, varsV>>

\* The document is put together, written when write is true, and returned.
WriteSvg ==
    /\ pcB = "write"
    /\ svg' = SvgContent(styles, elements)
    /\ files' = FilesAfter("write", files, map_name, svg', write)
    /\ pcB' = "returned"
    /\ UNCHANGED <<defs, fila, map_name, write, comp, elements, styles,
                   svg_prev, files_before, erroB>>
    /\ UNCHANGED <<varsP, varsL, varsH, varsO, varsC, varsM, varsF, varsV>>

\* __main__: "for andar in _andares: build_svg_map(andar)".  The loop has no
\* try: an exception of a build ends the program, and no turn follows it.
BatchNext ==
    /\ pcB = "returned"
    /\ fila \in 1..(Len(Andares) - 1)
    /\ fila' = fila + 1
    /\ map_name' = Andares[fila + 1]
    /\ files_before' = files
    /\ pcB' = "load"
    /\ UNCHANGED <<defs, files, write, comp, elements, styles, svg, svg_prev,
                   erroB>>
    /\ UNCHANGED <<varsP, varsL, varsH, varsO, varsC, varsM, varsF, varsV>>

\* A second call of build_svg_map with the same arguments.
BuildAgain ==
    /\ pcB = "returned"
    /\ fila = 0
    /\ svg_prev = NoSvg
    /\ svg_prev' = svg
    /\ files_before' = files
    /\ pcB' = "load"
    /\ UNCHANGED <<defs, files, fila, map_name, write, comp, elements, styles,
                   svg, erroB>>
    /\ UNCHANGED <<varsP, varsL, varsH, varsO, varsC, varsM, varsF, varsV>>

NextBuild ==
    \/ LoadDefinition
    \/ AppendElement
    \/ AppendStyle
    \/ WriteSvg
    \/ BatchNext
    \/ BuildAgain

SpecBuild == InitBuild /\ [][NextBuild]_vars

(***************************************************************************)
(* The view "Por dia" of visualizar_disciplina.                            *)
(***************************************************************************)
\* Most allocations of the room shown.
MaxAloc == 3

\* The schedule codes the allocations of the room are drawn from.
ViewCodes == {Code2M1, Code3T12, Code35T45}

\* "dia_numero in dias".
InDias(k, dias) == \E n \in 1..Len(dias) : dias[n] = k

\* The rows the inner loop "for alocacao in alocacoes" appends for day k, from
\* allocation n on: one row for each allocation whose decoded dias contain k.
RECURSIVE RowsFrom(_, _, _)
RowsFrom(as, k, n) ==
    IF n > Len(as) THEN <<>>
    ELSE (IF InDias(k, DesestruturarHorario(as[n]).dias)
          THEN <<[alocacao |-> n, horario |-> as[n]]>>
          ELSE <<>>) \o RowsFrom(as, k, n + 1)

RowsOfDay(as, k) == RowsFrom(as, k, 1)

InitView ==
    /\ alocacoes_sala \in SeqsUpTo(ViewCodes, MaxAloc)
    /\ dia_numero = 1
    /\ linhas = <<>>
    /\ markdown = <<>>
    /\ pcV = "dias"
    /\ IdleP /\ IdleL /\ IdleH /\ IdleO
    /\ IdleC /\ IdleM /\ IdleF /\ IdleB

\* One turn of "for dia_numero, dia_nome in semana.items()": the rows of the
\* day are appended to linhas, which holds what the days before left in it,
\* and the heading and the table are shown when linhas is not empty.
MostrarDia ==
    /\ pcV = "dias"
    /\ dia_numero <= NumDias
    /\ linhas' = linhas \o RowsOfDay(alocacoes_sala, dia_numero)
    /\ markdown' = IF linhas' # <<>>
                   THEN Append(markdown,
                               [dia |-> dia_numero, tabela |-> linhas'])
                   ELSE markdown
    /\ dia_numero' = dia_numero + 1
    /\ UNCHANGED <<alocacoes_sala, pcV>>
    /\ UNCHANGED <<varsP, varsL, varsH, varsO, varsC, varsM, varsF, varsB>>

\* The loop has gone through semana.
FimDias ==
    /\ pcV = "dias"
    /\ dia_numero > NumDias
    /\ pcV' = "done"
    /\ UNCHANGED <<alocacoes_sala, dia_numero, linhas, markdown>>
    /\ UNCHANGED <<varsP, varsL, varsH, varsO, varsC, varsM, varsF, varsB>>

NextView == MostrarDia \/ FimDias

SpecView == InitView /\ [][NextView]_vars

(***************************************************************************)
(* The whole model.                                                        *)
(***************************************************************************)
Init ==
    \/ InitParse \/ InitLayout \/ InitHorario \/ InitOrdem
    \/ InitFont \/ InitTransform \/ InitLoad \/ InitFeed \/ InitBuild
    \/ InitView

Next ==
    \/ NextParse \/ NextLayout \/ NextHorario \/ NextOrdem
    \/ NextFont \/ NextTransform \/ NextLoad \/ NextFeed \/ NextBuild
    \/ NextView

Spec == Init /\ [][Next]_vars

(***************************************************************************)
(* What the claims about parse_svg_path speak of.                          *)
(***************************************************************************)
\* The numeric tokens of the path, as the running version reads them, cut to
\* whole pairs.
PairVals(im, s) ==
    LET cs == Vals(ValidTokens(im, s))
    IN  SubSeq(cs, 1, Len(cs) - (Len(cs) % 2))

NumPairs(cs) == Len(cs) \div 2

\* dx1 + ... + dxn and dy1 + ... + dyn.
RECURSIVE SumX(_, _)
SumX(cs, n) == IF n = 0 THEN 0 ELSE SumX(cs, n - 1) + cs[2 * n - 1]

RECURSIVE SumY(_, _)
SumY(cs, n) == IF n = 0 THEN 0 ELSE SumY(cs, n - 1) + cs[2 * n]

SetMin(S) == CHOOSE m \in S : \A x \in S : m <= x
SetMax(S) == CHOOSE m \in S : \A x \in S : m >= x

\* The box of the prefix sums of at least one pair.
Hull(cs) ==
    LET xs == {SumX(cs, n) : n \in 1..NumPairs(cs)}
        ys == {SumY(cs, n) : n \in 1..NumPairs(cs)}
    IN  [min_x |-> Fin(SetMin(xs)), max_x |-> Fin(SetMax(xs)),
         min_y |-> Fin(SetMin(ys)), max_y |-> Fin(SetMax(ys))]

\* The box the claims expect of a sequence of whole pairs.
ExpectedBox(cs) == IF NumPairs(cs) = 0 THEN InitBox ELSE Hull(cs)

Finished == pcP \in {"done", "raised"}

\* C1: whenever parse_svg_path returns for a path with at least one pair of
\* numeric tokens, min/max X and Y are the minimum and maximum of the prefix
\* sums of the dx and of the dy, from (0,0), whatever letters separate the
\* numbers; the origin is in the box only when a prefix sum reaches it.
C1_BoxIsHullOfPrefixSums ==
    (pcP = "done" /\ NumPairs(PairVals(impl, d)) >= 1)
        => box = Hull(PairVals(impl, d))

\* A path of two pairs whose box differs from the box of its deltas and does
\* not hold the origin.
C1_Witness ==
    /\ pcP = "done"
    /\ NumPairs(PairVals(impl, d)) >= 2
    /\ box.min_x = Fin(-1 * Unit)
    /\ box.max_x = Fin(1 * Unit)
    /\ box.min_y = Fin(2 * Unit)

\* C2: after every step of the pair walk, and at the return, min_x <= max_x
\* and min_y <= max_y.
C2_BoxOrdered ==
    (pcP \in {"walk", "done"} /\ i >= 2)
        => ExtLE(box.min_x, box.max_x) /\ ExtLE(box.min_y, box.max_y)

\* In the middle of a walk, with a box wider than a point.
C2_Witness ==
    /\ pcP = "walk"
    /\ i >= 2
    /\ i < Len(coords)
    /\ ExtLT(box.min_x, box.max_x)
    /\ ExtLT(box.min_y, box.max_y)

\* C3: for the empty path and for a path with no valid numeric token,
\* parse_svg_path returns, without error, the box (+inf, -inf, +inf, -inf).
C3_NoNumberGivesDegenerateBox ==
    (Finished /\ ValidTokens(impl, d) = <<>>)
        => pcP = "done" /\ err = "" /\ box = InitBox

\* C5: for a path with an odd number of numeric tokens (and no other token),
\* parse_svg_path does not fail: it returns the box of the pairs before the
\* last token.
C5_OddCountDropsLast ==
    LET ts == Tokens(impl, d)
    IN  (/\ Finished
         /\ \A k \in 1..Len(ts) : IsFloat(ts[k])
         /\ Len(ts) % 2 = 1)
            => pcP = "done" /\ box = ExpectedBox(PairVals(impl, d))

\* C6: for a path with a token that is no number, parse_svg_path does not
\* fail: the token is left out and the box is that of the other numbers.
C6_BadTokenDiscarded ==
    LET ts == Tokens(impl, d)
    IN  (/\ Finished
         /\ \E k \in 1..Len(ts) : ~IsFloat(ts[k]))
            => pcP = "done" /\ box = ExpectedBox(PairVals(impl, d))

(***************************************************************************)
(* What the claims about the layout speak of.                              *)
(***************************************************************************)
\* The coordinates written into the SVG for what was emitted.
EmittedCoords(o) ==
    (IF o.group THEN {o.gx, o.gy} ELSE {})
        \cup (IF o.title THEN {o.tx, o.ty} ELSE {})
        \cup (IF o.desc THEN {o.bx, o.by} ELSE {})

\* C4: for a room with a type whose path gives the degenerate box, the layout
\* emits no icon and no text, and no coordinate that is infinite or not a
\* number is written.
C4_DegenerateBoxSkipsIconAndText ==
    (/\ pcL = "done"
     /\ room.type # ""
     /\ ParseSvgPath(impl, d).box = InitBox)
        => /\ ~out.group
           /\ ~out.title
           /\ ~out.desc
           /\ \A c \in EmittedCoords(out) : IsFinite(c)

(***************************************************************************)
(* What the claims about schedule codes speak of.                          *)
(***************************************************************************)
HasLetter(e) == \E k \in 1..Len(e) : IsAlpha(e[k])

\* The position of the first letter of a code that has one.
FirstLetterAt(e) ==
    CHOOSE k \in 1..Len(e) : IsAlpha(e[k]) /\ \A j \in 1..(k - 1) : ~IsAlpha(e[j])

\* The digits of a string, in order, as numbers.
RECURSIVE DigitsOf(_)
DigitsOf(e) ==
    IF e = <<>> THEN <<>>
    ELSE IF IsDigit(Head(e)) THEN <<DigitVal(Head(e))>> \o DigitsOf(Tail(e))
    ELSE DigitsOf(Tail(e))

\* C7: the digits before the first letter are the days, the first letter is
\* the shift, whatever letters follow, and the digits after it are the hour
\* slots, in order.
C7_FirstLetterIsShift ==
    (pcH = "done" /\ HasLetter(elemento))
        => LET f == FirstLetterAt(elemento)
           IN  /\ hr.dias = DigitsOf(SubSeq(elemento, 1, f - 1))
               /\ hr.turno = elemento[f]
               /\ hr.horarios = DigitsOf(SubSeq(elemento, f + 1, Len(elemento)))

\* C8: a code without letter gives an empty shift, no hour slot, and all its
\* digits as days, in order.
C8_NoLetterAllDays ==
    (pcH = "done" /\ ~HasLetter(elemento))
        => /\ hr.turno = ""
           /\ hr.horarios = <<>>
           /\ hr.dias = DigitsOf(elemento)

\* A code of digits and another character, without letter, decoded.
C8_Witness ==
    /\ pcH = "done"
    /\ ~HasLetter(elemento)
    /\ Len(hr.dias) >= 2
    /\ Len(hr.dias) < Len(elemento)

\* The priority of the shifts.
Prioridade == [t \in {"M", "T", "N", "E"} |-> CASE t = "M" -> 1 [] t = "T" -> 2
                                                [] t = "N" -> 3 [] t = "E" -> 4]

SeqMin(sq) == SetMin({sq[k] : k \in 1..Len(sq)})

\* A schedule code of the data model: days 1..7, a shift of M, T, N, E, hour
\* slots 1..6.
WellFormed(h) ==
    /\ h.dias # <<>>
    /\ \A k \in 1..Len(h.dias) : h.dias[k] \in 1..NumDias
    /\ h.turno \in DOMAIN Prioridade
    /\ h.horarios # <<>>
    /\ \A k \in 1..Len(h.horarios) : h.horarios[k] \in 1..NumHorarios

\* (min(days), priority, min(hourSlots)) of one is below that of the other.
KeyBelow(g, h) ==
    LET dg == SeqMin(g.dias)
        dh == SeqMin(h.dias)
        pg == Prioridade[g.turno]
        ph == Prioridade[h.turno]
    IN  \/ dg < dh
        \/ dg = dh /\ pg < ph
        \/ dg = dh /\ pg = ph /\ SeqMin(g.horarios) < SeqMin(h.horarios)

\* Where discipline k first stands in the tree, 0 if nowhere.
FirstPos(k) ==
    LET ps == {p \in 1..Len(tree) : tree[p].k = k}
    IN  IF ps = {} THEN 0 ELSE SetMin(ps)

\* The codes in the order in which the tree first shows them.
Ordered ==
    LET IsFirst(p) == \A q \in 1..(p - 1) : tree[q].k # tree[p].k
        firsts == SelectSeq([p \in 1..Len(tree) |-> p], IsFirst)
    IN  [j \in 1..Len(firsts) |-> disciplinas[tree[firsts[j]].k]]

\* C9: the tree shows the schedule codes by min(days), then by shift in the
\* order M, T, N, E, then by min(hourSlots): of two well-formed codes the one
\* with the lower key is shown first; and "2M2345", "3T12", "2E1" come out as
\* "2M2345", "2E1", "3T12".
C9_CanonicalOrder ==
    pcO = "done"
        => /\ \A a, b \in 1..Len(disciplinas) :
                LET g == DesestruturarHorario(disciplinas[a])
                    h == DesestruturarHorario(disciplinas[b])
                IN  (WellFormed(g) /\ WellFormed(h) /\ KeyBelow(g, h))
                        => /\ FirstPos(a) > 0
                           /\ FirstPos(a) < FirstPos(b)
           /\ disciplinas = <<Code2M2345, Code3T12, Code2E1>>
                => Ordered = <<Code2M2345, Code2E1, Code3T12>>

\* The example of the specification, ordered.
C9_Witness ==
    /\ pcO = "done"
    /\ disciplinas = <<Code2M2345, Code3T12, Code2E1>>
    /\ Ordered = <<Code2M2345, Code2E1, Code3T12>>

\* C10: ordering a code whose shift letter is not one of M, T, N, E raises:
\* the ordering never completes with such a code among its input (and so
\* never leaves it out of the tree silently).
C10_UnknownShiftRaises ==
    pcO = "done"
        => \A k \in 1..Len(disciplinas) :
              LET h == DesestruturarHorario(disciplinas[k])
              IN  h.turno # "" => h.turno \in DOMAIN Prioridade

(***************************************************************************)
(* What the claims about font size and icon placement speak of.            *)
(***************************************************************************)
\* len(text) * size * 0.8
EstimatedWidth(text, size) == RatMul(Rat(Len(text) * ScaleNum, ScaleDen), size)

FontCase == pcC = "done" /\ Len(call.text) >= 1 /\ call.width >= 0

Fits == RatLE(EstimatedWidth(call.text, RatInt(call.base)), RatInt(call.width))

C20_IconCentred ==
    pcC = "done"
        => LET cx == Rat(call.b.min_x + call.b.max_x, 2)
               cy == Rat(call.b.min_y + call.b.max_y, 2)
               half == Rat(call.dim * call.scale.n, 2 * call.scale.dn)
           IN  /\ RatEq(RatAdd(ret.translate_x, half), cx)
               /\ RatEq(RatAdd(ret.translate_y, half), cy)
               /\ ret.scale = call.scale
               /\ (/\ call.b = [min_x |-> 0, max_x |-> 100,
                                min_y |-> 0, max_y |-> 100]
                   /\ call.dim = 200
                   /\ call.scale = Rat(1, 4))
                    => /\ RatEq(ret.translate_x, RatInt(25))
                       /\ RatEq(ret.translate_y, RatInt(25))
               /\ (call.dim = Dim /\ call.scale = Rat(1, 4))
                    => LET t == TranslateOf(Center(Fin(call.b.min_x * Unit),
                                                   Fin(call.b.max_x * Unit)))
                       IN  RatEq(Rat(t.v, LU(1)), ret.translate_x)

\* The example of the specification.
C20_Witness ==
    /\ pcC = "done"
    /\ call.b = [min_x |-> 0, max_x |-> 100, min_y |-> 0, max_y |-> 100]
    /\ call.dim = 200
    /\ call.scale = Rat(1, 4)
    /\ RatEq(ret.translate_x, RatInt(25))

\* C17: for every floor name and every state of the processed file (present,
\* absent, unreadable), load_map raises nothing and returns the stored text
\* or the not-found message of that name.
C17_LoadMapNeverRaises ==
    pcM = "done"
        => /\ erroM = ""
           /\ \/ loaded = NotFoundMessage(level)
              \/ /\ level \in Niveis
                 /\ files[ArquivosSvg(level)].state = "present"
                 /\ loaded = SvgText(files[ArquivosSvg(level)].text)

(***************************************************************************)
(* What the claims about the schedule feed speak of.                       *)
(***************************************************************************)
FeedEnded == pcF \in {"done", "raised"}

\* The allocations of the complete entries of rooms s.., in input order.
RECURSIVE CompleteFrom(_, _)
CompleteFrom(solution, s) ==
    IF s > Len(solution) THEN <<>>
    ELSE LET classes == solution[s].classes
             RECURSIVE Of(_)
             Of(c) == IF c > Len(classes) THEN <<>>
                      ELSE IF classes[c].missing = ""
                      THEN <<AlocacaoOf(s, classes[c])>> \o Of(c + 1)
                      ELSE Of(c + 1)
         IN  Of(1) \o CompleteFrom(solution, s + 1)

\* C16: when the fetch fails (non-2xx response or network error), baixar_json
\* followed by descarregar_conteudo raises nothing and returns an empty list
\* of allocations.
C16_FetchFailureGivesEmpty ==
    (FeedEnded /\ resposta.kind # "ok")
        => /\ pcF = "done"
           /\ erroF = ""
           /\ alocacoes = <<>>

\* C18: when a schedule entry of the feed lacks a required key, only that
\* entry is skipped: descarregar_conteudo raises nothing and returns the
\* allocations of every other entry, in input order.
C18_IncompleteRecordSkipped ==
    (FeedEnded /\ resposta.kind = "ok")
        => /\ pcF = "done"
           /\ erroF = ""
           /\ alocacoes = CompleteFrom(resposta.body.solution, 1)

(***************************************************************************)
(* What the claims about build_svg_map speak of.                           *)
(***************************************************************************)
\* The components of the floor being built.
MapData == defs[map_name].rooms

Named(c) == c.id # "" \/ c.title # ""

\* How many of the first k components have an id or a title: the place of
\* the rule of component k among the rules.
Rank(rs, k) == Cardinality({j \in 1..k : Named(rs[j])})

Returned == pcB = "returned"

\* C11: a returned build has exactly one hover rule for each component whose
\* id or title is not empty and none for a component with neither, whose path
\* is emitted all the same; the fill of a rule is the colorOnHover of its
\* component, or #B2BCBE when that is empty.
C11_OneHoverRulePerNamedRoom ==
    Returned
        => /\ Len(svg.styles) = Rank(MapData, Len(MapData))
           /\ Len(svg.elements) = Len(MapData)
           /\ \A k \in 1..Len(MapData) :
                /\ svg.elements[k].d = MapData[k].d
                /\ svg.elements[k].out.kind \in {"path", "typed"}
                /\ Named(MapData[k])
                    => LET rule == svg.styles[Rank(MapData, k)]
                       IN  /\ rule.selector \in {MapData[k].id, MapData[k].title}
                           /\ rule.selector # ""
                           /\ rule.fill =
                                IF MapData[k].colorOnHover # ""
                                THEN MapData[k].colorOnHover
                                ELSE "#B2BCBE"

\* A floor of two components, the first with id and no hover colour, the
\* second with neither id nor title: one rule, two elements.
C11_Witness ==
    /\ Returned
    /\ Len(MapData) = 2
    /\ Named(MapData[1]) /\ MapData[1].colorOnHover = ""
    /\ ~Named(MapData[2])
    /\ Len(svg.styles) = 1
    /\ Len(svg.elements) = 2

\* C12: a returned build has one anchor element per component, the k-th
\* element being that of the k-th component, and the rules come in the order
\* of their components: nothing is reordered, duplicated or dropped.
C12_InputOrderPreserved ==
    Returned
        => /\ Len(svg.elements) = Len(MapData)
           /\ \A k \in 1..Len(MapData) :
                /\ svg.elements[k] = AnchorOf(MapData[k]).el
                /\ Named(MapData[k])
                    => /\ Rank(MapData, k) <= Len(svg.styles)
                       /\ svg.styles[Rank(MapData, k)].selector
                            = IdOrTitle(MapData[k])

\* Two different components, both with a rule.
C12_Witness ==
    /\ Returned
    /\ Len(MapData) = 2
    /\ MapData[1] # MapData[2]
    /\ Named(MapData[1]) /\ Named(MapData[2])
    /\ IdOrTitle(MapData[1]) # IdOrTitle(MapData[2])
    /\ Len(svg.styles) = 2

\* C13: a second build of the same floor from the same definition returns
\* the document of the first, and in a batch two floors of the same
\* definition get the same document: nothing of an earlier build is left in
\* a later one.
C13_BuildTwiceSame ==
    Returned
        => /\ (fila = 0 /\ svg_prev # NoSvg) => svg = svg_prev
           /\ \A j \in 1..(fila - 1) :
                defs[Andares[j]] = defs[map_name]
                    => files[Andares[j]] = Stored(svg)

\* A floor with components, built a second time.
C13_Witness ==
    /\ Returned
    /\ fila = 0
    /\ svg_prev # NoSvg
    /\ Len(svg.elements) >= 1
    /\ Len(svg.styles) >= 1

\* The batch is over: its last floor is built, or a build raised.
BatchEnded ==
    /\ fila >= 1
    /\ \/ pcB = "raised"
       \/ pcB = "returned" /\ fila = Len(Andares)

\* C14: when the batch is over, every floor whose definition is there and
\* well formed has been built and written, the floors after a missing or
\* malformed one included.
C14_BatchContinuesAfterFailure ==
    BatchEnded
        => \A k \in 1..Len(Andares) :
                defs[Andares[k]].kind = "ok"
                    => /\ files[Andares[k]].state = "present"
                       /\ files[Andares[k]].text # OldSvg

\* C15: until a build writes its document, and so whenever it raises (the
\* definition missing or malformed, or the layout of a component failing),
\* every file of assets/processado is as it was when the build began.
C15_FailureBeforeAnyWrite ==
    pcB \in {"load", "elements", "styles", "write", "raised"}
        => files = files_before

\* A build that would have written, raising in the layout of a component,
\* over a file left by an earlier run.
C15_Witness ==
    /\ pcB = "raised"
    /\ write
    /\ erroB = "ValueError"
    /\ files[map_name] = Stored(OldSvg)

(***************************************************************************)
(* What the claims about the layout of a room speak of.                    *)
(***************************************************************************)
LayoutEnded == pcL \in {"done", "raised"}

\* C21: for a room whose type is empty only the raw path is emitted, no icon
\* group and no text, whatever its title, description and path are; no box
\* is computed, so a path the parser would raise on raises nothing.
C21_UntypedRoomIsRawPath ==
    (LayoutEnded /\ room.type = "")
        => /\ pcL = "done"
           /\ err = ""
           /\ out.kind = "path"
           /\ ~out.group /\ ~out.icon /\ ~out.title /\ ~out.desc

\* A room without type, with title and description, whose path the parser
\* of src/svg/mapa.py raises on.
C21_Witness ==
    /\ pcL = "done"
    /\ impl = "mapa"
    /\ room.type = "" /\ room.title # "" /\ room.description # ""
    /\ ParseSvgPath("mapa", d).err # ""
    /\ out.kind = "path"

\* A typed room laid out by create_path_element of src/svg/mapa.py, its box
\* finite.
TypedLayoutDone ==
    /\ pcL = "done"
    /\ impl = "mapa"
    /\ room.type # ""
    /\ \A c \in {ParseSvgPath("mapa", d).box.min_x,
                 ParseSvgPath("mapa", d).box.max_x,
                 ParseSvgPath("mapa", d).box.min_y,
                 ParseSvgPath("mapa", d).box.max_y} : IsFinite(c)

\* The centre and the height of the box, as layout lengths.
BoxCenterX ==
    10 * (ParseSvgPath("mapa", d).box.min_x.v
            + ParseSvgPath("mapa", d).box.max_x.v)
BoxCenterY ==
    10 * (ParseSvgPath("mapa", d).box.min_y.v
            + ParseSvgPath("mapa", d).box.max_y.v)
BoxHeight ==
    20 * (ParseSvgPath("mapa", d).box.max_y.v
            - ParseSvgPath("mapa", d).box.min_y.v)

\* The gap of a label as the specification has it: 15, or 0 for an empty
\* text of a room of type "none".
SpecGap(text) == IF text = "" /\ room.type = "none" THEN 0 ELSE 15 * 20 * Unit

\* The nine categories of the specification.
NineCategories ==
    {"sala-de-aula", "sala-de-professor", "banheiro-masculino",
     "banheiro-feminino", "biblioteca", "auditorio", "laboratorio",
     "laboratorio-de-pesquisa", "generico"}

\* The text distance read off the place of the title label.
ShownTextDistance == BoxCenterY - out.ty.v - SpecGap(room.title)

\* C22: for a room of one of the nine recognized types an icon is emitted
\* and the text distance is 0.15 times the height of the box; for any other
\* non-empty type no icon is emitted and the text distance is 200 * 0.15 =
\* 30, whatever the height.
C22_TextDistanceByType ==
    TypedLayoutDone
        => /\ Cardinality(NineCategories) = 9
           /\ room.type \in NineCategories
                => /\ out.icon
                   /\ 100 * ShownTextDistance = 15 * BoxHeight
           /\ room.type \notin NineCategories
                => /\ ~out.icon
                   /\ ShownTextDistance = 30 * 20 * Unit

\* A room of an unrecognized type whose box has a height other than 200.
C22_Witness ==
    /\ TypedLayoutDone
    /\ room.type = "deposito"
    /\ BoxHeight > 0
    /\ 15 * BoxHeight # 100 * ShownTextDistance
    /\ ~out.icon

\* C23: the title label is at y = centerY - textDistance - 15 and the
\* description label at y = centerY + textDistance + 15, both at x =
\* centerX, the 15 being 0 for an empty text of a room of type "none"; so
\* titleY <= centerY <= descY, and the labels mirror each other about the
\* centre when their gaps are the same.
C23_LabelsAboutCentre ==
    TypedLayoutDone
        => LET td == IF room.type \in NineCategories
                     THEN (15 * BoxHeight) \div 100
                     ELSE 30 * 20 * Unit
           IN  /\ out.tx = Fin(BoxCenterX)
               /\ out.bx = Fin(BoxCenterX)
               /\ out.ty = Fin(BoxCenterY - td - SpecGap(room.title))
               /\ out.by = Fin(BoxCenterY + td + SpecGap(room.description))
               /\ out.ty.v <= BoxCenterY
               /\ BoxCenterY <= out.by.v
               /\ SpecGap(room.title) = SpecGap(room.description)
                    => BoxCenterY - out.ty.v = out.by.v - BoxCenterY

\* A room of type "none" without title and with a description: no gap above,
\* a gap of 15 below.
C23_Witness ==
    /\ TypedLayoutDone
    /\ room.type = "none"
    /\ room.title = "" /\ room.description # ""
    /\ out.ty = Fin(BoxCenterY - 30 * 20 * Unit)
    /\ out.by = Fin(BoxCenterY + 30 * 20 * Unit + 15 * 20 * Unit)

\* C24: for a typed room no title text element is emitted when the title is
\* empty and no description text element when the description is empty.
C24_EmptyLabelOmitted ==
    (pcL = "done" /\ room.type # "")
        => /\ room.title = "" => ~out.title
           /\ room.description = "" => ~out.desc

(***************************************************************************)
(* What the claims about the emitted document speak of.                    *)
(***************************************************************************)
\* The path of element k carries attribute key with value v.
Carries(k, key, v) ==
    \E n \in 1..Len(svg.elements[k].attrs) :
        svg.elements[k].attrs[n] = [key |-> key, value |-> v]

\* C25: the path of every room, typed or not, has the id of the room, or its
\* title when the id is empty, has each fill and stroke attribute of the
\* room that is not empty, and has no attribute with an empty value.
C25_PathAttributes ==
    Returned
        => \A k \in 1..Len(MapData) :
            /\ IdOrTitle(MapData[k]) # ""
                => Carries(k, "id", IdOrTitle(MapData[k]))
            /\ MapData[k].fill # "" => Carries(k, "fill", MapData[k].fill)
            /\ MapData[k].fillRule # ""
                => Carries(k, "fill-rule", MapData[k].fillRule)
            /\ MapData[k].stroke # ""
                => Carries(k, "stroke", MapData[k].stroke)
            /\ MapData[k].strokeWidth # ""
                => Carries(k, "stroke-width", MapData[k].strokeWidth)
            /\ MapData[k].strokeLinecap # ""
                => Carries(k, "stroke-linecap", MapData[k].strokeLinecap)
            /\ MapData[k].strokeLinejoin # ""
                => Carries(k, "stroke-linejoin", MapData[k].strokeLinejoin)
            /\ \A n \in 1..Len(svg.elements[k].attrs) :
                svg.elements[k].attrs[n].value # ""

\* C26: the clip-path reference of the group around the room elements
\* resolves to the clipPath defined in the document.
C26_ClipReferenceResolves == Returned => svg.clip_ref = svg.clip_id

\* C28: for every room with a hover rule, the id the rule selects is the id
\* of the path inside the anchor of that room.
C28_HoverRuleHasTarget ==
    Returned
        => \A k \in 1..Len(MapData) :
            Named(MapData[k])
                => /\ Rank(MapData, k) <= Len(svg.styles)
                   /\ Carries(k, "id", svg.styles[Rank(MapData, k)].selector)

(***************************************************************************)
(* What the claim about the two extractors speaks of.                      *)
(***************************************************************************)
\* parse_svg_path of the other file, on the same path.
OtherParse == ParseSvgPath(IF impl = "mapa" THEN "gerar" ELSE "mapa", d)

\* C29: the two versions of parse_svg_path agree: one returns exactly when
\* the other does, and on every path on which both return they return the
\* same box.
C29_ExtractorsEquivalent ==
    Finished
        => /\ (err = "") <=> (OtherParse.err = "")
           /\ (err = "" /\ OtherParse.err = "") => box = OtherParse.box

\* C30: for every input string the days followed by the hour slots are the
\* digits of the input, in order; characters that are neither digits nor
\* letters are passed over; there are hour slots only if there is a shift.
C30_NoDigitLostOrInvented ==
    pcH \in {"done", "raised"}
        => /\ pcH = "done"
           /\ hr.dias \o hr.horarios = DigitsOf(elemento)
           /\ hr.horarios # <<>> => hr.turno # ""

\* C27: in the view "Por dia", the table shown under a day lists exactly the
\* allocations of the room whose decoded days contain that day, with no row
\* carried over from an earlier day, and a day with no allocation gets no
\* heading and no table.
C27_TablePerDay ==
    /\ \A n \in 1..Len(markdown) :
          markdown[n].tabela = RowsOfDay(alocacoes_sala, markdown[n].dia)
    /\ pcV \in {"dias", "done"} =>
          \A k \in 1..(dia_numero - 1) :
             RowsOfDay(alocacoes_sala, k) = <<>> =>
                ~ \E n \in 1..Len(markdown) : markdown[n].dia = k

====
